---------------------------- MODULE Spec2Model ----------------------------
(***************************************************************************)
(* React host + Angular remote, integrated through module federation and   *)
(* a custom element.                                                       *)
(*                                                                         *)
(*   host   : App.jsx (render of the markup, the effect with the dynamic   *)
(*            import and its then/catch callbacks), vite.config.ts         *)
(*   remote : bootstrap.ts (createApplication(...).then(define; log)),     *)
(*            webpack.config.js (name, exposes)                            *)
(*   orchestration : the npm scripts build / dev / dev:sequential that the *)
(*            README describes (package.json and turbo.json themselves are *)
(*            not among the source files; they are modelled from the       *)
(*            documentation)                                               *)
(***************************************************************************)
EXTENDS Naturals, Sequences, FiniteSets

(* ------------------------------ bounds --------------------------------- *)

\* How many times the page mounts App (1 normally, 2 when React re-runs
\* the mount, as under StrictMode), at most.
MaxMounts == 2

\* How many unsuccessful requests the readiness polling issues before its
\* timeout elapses.
PollLimit == 2

Mounts == 1..MaxMounts

(* ------------------------- configuration ------------------------------- *)

\* Variant: the host's configuration names another port than the one the
\* remote serves (and the sequential start waits for).
HostRemotesOtherPort == [remoteAngular |-> "http://localhost:4200/remoteEntry.js"]

\* vite.config.ts: federation({ remotes: { remoteAngular: "<url>" } })
HostRemotes == [remoteAngular |-> "http://localhost:4201/remoteEntry.js"]

\* webpack.config.js: name: "remoteAngular"
RemoteName == "remoteAngular"

\* webpack.config.js: exposes: { "./AngularApp": "./src/bootstrap.ts" }
\* A module path is the sequence of its segments.
RemoteExposes == {[key |-> <<".", "AngularApp">>, file |-> "./src/bootstrap.ts"]}

\* App.jsx: import("remoteAngular/AngularApp")
HostImport == <<"remoteAngular", "AngularApp">>

\* The URL at which the remote's dev server serves its entry script.
RemoteServedUrl == "http://localhost:4201/remoteEntry.js"

\* The URL the readiness polling requests.
WaitOnUrl == "http://localhost:4201/remoteEntry.js"

\* bootstrap.ts: customElements.define('angular-app', el)
TagName == "angular-app"

\* App.jsx: what App returns, the children of div.main-container in order.
AppMarkup == <<"h2:This is React", "span.split", "angular-app">>

\* Console lines.
MsgLoaded == "Angular remote loaded"
MsgFailed == "Failed to load Angular remote"
MsgRegistered == "Angular Web Component registered"

\* The federation runtime's resolution of "alias/rest": the container of
\* the remote `alias` is asked for the module "./rest".
ExposedKey(spec) == <<".">> \o Tail(spec)

RemoteAlias(spec) == Head(spec)

Exposed(spec) == \E e \in RemoteExposes : e.key = ExposedKey(spec)

VARIABLES
    cmd,          \* the npm script that was run
    remoteBuild,  \* build task of remote-angular
    hostBuild,    \* build task of host-react
    artifacts,    \* output artifacts in the order they were completed
    remoteSrv,    \* the remote's dev server
    hostSrv,      \* the host's dev server (and the wait before it)
    polls,        \* unsuccessful readiness requests so far
    waitResult,   \* outcome of the readiness polling
    waitError,    \* the error the polling reported
    nMounts,      \* 0: page not loaded; else the number of mounts of App
    markup,       \* markup[m]: what mount m rendered
    upgraded,     \* upgraded[m]: mount m's <angular-app> was upgraded
    status,       \* status[m]: where mount m's dynamic import stands
    imports,      \* every dynamic import issued, in order
    moduleCache,  \* specifiers whose module the loader has evaluated
    bootstrap,    \* where the remote's bootstrap module stands
    evalCount,    \* evaluations of the bootstrap module
    defineCalls,  \* calls of customElements.define
    dupError,     \* a define call threw on an already defined name
    registry,     \* the page's custom element registry
    console       \* the page's console

buildVars == <<remoteBuild, hostBuild, artifacts>>
orchVars == <<remoteSrv, hostSrv, polls, waitResult, waitError>>
hostVars == <<nMounts, markup, upgraded, status, imports>>
remoteVars == <<moduleCache, bootstrap, evalCount, defineCalls, dupError, registry>>
vars == <<cmd, buildVars, orchVars, hostVars, remoteVars, console>>

Commands == {"build", "dev", "dev:sequential"}

Init ==
    /\ cmd \in Commands
    /\ remoteBuild = "pending"
    /\ hostBuild = "pending"
    /\ artifacts = <<>>
    /\ remoteSrv = "off"
    /\ hostSrv = "off"
    /\ polls = 0
    /\ waitResult = "none"
    /\ waitError = ""
    /\ nMounts = 0
    /\ markup = [m \in Mounts |-> <<>>]
    /\ upgraded = [m \in Mounts |-> FALSE]
    /\ status = [m \in Mounts |-> "idle"]
    /\ imports = <<>>
    /\ moduleCache = {}
    /\ bootstrap = "unloaded"
    /\ evalCount = 0
    /\ defineCalls = 0
    /\ dupError = FALSE
    /\ registry = {}
    /\ console = <<>>

(* --------------------- npm run build (turbo) --------------------------- *)
(* README, Build Process: "Turborepo will build Angular first              *)
(* (dependency), then React host"; outputs go to the apps' dist/.          *)

BuildStartRemote ==
    /\ cmd = "build"
    /\ remoteBuild = "pending"
    /\ remoteBuild' = "running"
    /\ UNCHANGED <<cmd, hostBuild, artifacts, orchVars, hostVars, remoteVars, console>>

BuildFinishRemote ==
    /\ remoteBuild = "running"
    /\ remoteBuild' = "done"
    /\ artifacts' = Append(artifacts, "remote-angular/dist")
    /\ UNCHANGED <<cmd, hostBuild, orchVars, hostVars, remoteVars, console>>

BuildFailRemote ==
    /\ remoteBuild = "running"
    /\ remoteBuild' = "failed"
    /\ UNCHANGED <<cmd, hostBuild, artifacts, orchVars, hostVars, remoteVars, console>>

\* Variant: the host's build task without its dependency on the remote's.
BuildStartHostNoDep ==
    /\ cmd = "build"
    /\ hostBuild = "pending"
    /\ hostBuild' = "running"
    /\ UNCHANGED <<cmd, remoteBuild, artifacts, orchVars, hostVars, remoteVars, console>>

\* The host's build task depends on the remote's: it is scheduled only
\* once the remote's build has finished.
BuildStartHost ==
    /\ cmd = "build"
    /\ hostBuild = "pending"
    /\ remoteBuild = "done"
    /\ hostBuild' = "running"
    /\ UNCHANGED <<cmd, remoteBuild, artifacts, orchVars, hostVars, remoteVars, console>>

BuildFinishHost ==
    /\ hostBuild = "running"
    /\ hostBuild' = "done"
    /\ artifacts' = Append(artifacts, "host-react/dist")
    /\ UNCHANGED <<cmd, remoteBuild, orchVars, hostVars, remoteVars, console>>

BuildFailHost ==
    /\ hostBuild = "running"
    /\ hostBuild' = "failed"
    /\ UNCHANGED <<cmd, remoteBuild, artifacts, orchVars, hostVars, remoteVars, console>>

(* ----------------- npm run dev / npm run dev:sequential ---------------- *)
(* README, Development Workflow and How the Sequential Start Works.        *)

DevCommands == {"dev", "dev:sequential"}

\* The remote's dev server is started (both dev scripts start it).
StartRemote ==
    /\ cmd \in DevCommands
    /\ remoteSrv = "off"
    /\ remoteSrv' = "starting"
    /\ UNCHANGED <<cmd, buildVars, hostSrv, polls, waitResult, waitError,
                   hostVars, remoteVars, console>>

\* The remote has compiled: remoteEntry.js is served from now on.
RemoteReady ==
    /\ remoteSrv = "starting"
    /\ remoteSrv' = "ready"
    /\ UNCHANGED <<cmd, buildVars, hostSrv, polls, waitResult, waitError,
                   hostVars, remoteVars, console>>

\* An HTTP GET of `url` answers with a success status.
Reachable(url) == remoteSrv = "ready" /\ url = RemoteServedUrl

\* Parallel start: the host's dev server is started at once, whatever the
\* remote's state.
StartHostParallel ==
    /\ cmd = "dev"
    /\ hostSrv = "off"
    /\ hostSrv' = "running"
    /\ UNCHANGED <<cmd, buildVars, remoteSrv, polls, waitResult, waitError,
                   hostVars, remoteVars, console>>

\* Sequential start: "Angular Remote starts first", then "React Host
\* waits": the host's script begins polling the remote's entry script.
BeginWait ==
    /\ cmd = "dev:sequential"
    /\ hostSrv = "off"
    /\ remoteSrv # "off"
    /\ hostSrv' = "waiting"
    /\ UNCHANGED <<cmd, buildVars, remoteSrv, polls, waitResult, waitError,
                   hostVars, remoteVars, console>>

\* One request of the polling loop: a success status ends the wait with
\* success, anything else counts as one more unsuccessful request.
Poll ==
    /\ hostSrv = "waiting"
    /\ waitResult = "none"
    /\ polls < PollLimit
    /\ IF Reachable(WaitOnUrl)
         THEN waitResult' = "ok" /\ polls' = polls
         ELSE waitResult' = waitResult /\ polls' = polls + 1
    /\ UNCHANGED <<cmd, buildVars, remoteSrv, hostSrv, waitError,
                   hostVars, remoteVars, console>>

\* Variant: on timeout the script goes on and starts the host.
WaitTimeoutProceeds ==
    /\ hostSrv = "waiting"
    /\ waitResult = "none"
    /\ polls = PollLimit
    /\ waitResult' = "timeout"
    /\ waitError' = WaitOnUrl
    /\ hostSrv' = "running"
    /\ UNCHANGED <<cmd, buildVars, remoteSrv, polls, hostVars, remoteVars, console>>

\* The timeout elapses with no success status observed: the wait fails
\* with an error naming the URL, and the host's script ends there.
WaitTimeout ==
    /\ hostSrv = "waiting"
    /\ waitResult = "none"
    /\ polls = PollLimit
    /\ waitResult' = "timeout"
    /\ waitError' = WaitOnUrl
    /\ hostSrv' = "failed"
    /\ UNCHANGED <<cmd, buildVars, remoteSrv, polls, hostVars, remoteVars, console>>

\* "React Host starts: Only after Angular's remoteEntry.js is available".
StartHostAfterWait ==
    /\ hostSrv = "waiting"
    /\ waitResult = "ok"
    /\ hostSrv' = "running"
    /\ UNCHANGED <<cmd, buildVars, remoteSrv, polls, waitResult, waitError,
                   hostVars, remoteVars, console>>

(* ------------------------- the host page ------------------------------- *)

HostEntry(msg, m) == [src |-> "host", msg |-> msg, mount |-> m]

RemoteEntry(msg) == [src |-> "remote", msg |-> msg, mount |-> 0]

\* How many console lines equal `e`.
Count(e) == Cardinality({i \in DOMAIN console : console[i] = e})

\* How many dynamic imports mount m has issued.
Issued(m) == Cardinality({i \in DOMAIN imports : imports[i].mount = m})

\* The browser loads the host page from the host's dev server; the page
\* mounts App n times.
LoadPage(n) ==
    /\ hostSrv = "running"
    /\ nMounts = 0
    /\ nMounts' = n
    /\ UNCHANGED <<cmd, buildVars, orchVars, markup, upgraded, status, imports,
                   remoteVars, console>>

\* App's render (App.jsx, the return statement): the heading, the split
\* span and the <angular-app> tag.  A tag created while its name is
\* already defined is upgraded as it is created.
Render(m) ==
    /\ m <= nMounts
    /\ status[m] = "idle"
    /\ \A k \in 1..(m - 1) : status[k] # "idle"
    /\ markup' = [markup EXCEPT ![m] = AppMarkup]
    /\ upgraded' = [upgraded EXCEPT ![m] = TagName \in registry]
    /\ status' = [status EXCEPT ![m] = "rendered"]
    /\ UNCHANGED <<cmd, buildVars, orchVars, nMounts, imports, remoteVars, console>>

\* Variant: the effect without its empty dependency list, which runs again
\* after the import has settled.
RunEffectNoDeps(m) ==
    /\ status[m] \in {"rendered", "loaded", "failed"}
    /\ Cardinality({i \in DOMAIN imports : imports[i].mount = m}) < 3
    /\ imports' = Append(imports, [mount |-> m, spec |-> HostImport])
    /\ status' = [status EXCEPT ![m] = "pending"]
    /\ UNCHANGED <<cmd, buildVars, orchVars, nMounts, markup, upgraded,
                   remoteVars, console>>

\* App's effect (useEffect(..., [])): runs once after the mount and issues
\* the dynamic import, whose promise is then pending.
RunEffect(m) ==
    /\ status[m] = "rendered"
    /\ imports' = Append(imports, [mount |-> m, spec |-> HostImport])
    /\ status' = [status EXCEPT ![m] = "pending"]
    /\ UNCHANGED <<cmd, buildVars, orchVars, nMounts, markup, upgraded,
                   remoteVars, console>>

\* The specifier of mount m's (last) import.
SpecOf(m) ==
    LET idx == {i \in DOMAIN imports : imports[i].mount = m}
    IN  imports[CHOOSE i \in idx : \A j \in idx : j <= i].spec

\* The federation runtime can load `spec`: its alias names a remote of the
\* host's configuration, that remote's entry script is reachable, and the
\* remote exposes the module.
Loadable(spec) ==
    /\ RemoteAlias(spec) \in DOMAIN HostRemotes
    /\ Reachable(HostRemotes[RemoteAlias(spec)])
    /\ Exposed(spec)

\* Variant: the loader evaluates the module on every import.
ImportFulfilReevaluate(m) ==
    /\ status[m] = "pending"
    /\ Loadable(SpecOf(m))
    /\ status' = [status EXCEPT ![m] = "fulfilled"]
    /\ moduleCache' = moduleCache \cup {SpecOf(m)}
    /\ bootstrap' = "creating"
    /\ evalCount' = evalCount + 1
    /\ UNCHANGED <<cmd, buildVars, orchVars, nMounts, markup, upgraded, imports,
                   defineCalls, dupError, registry, console>>

\* Variant: the import fulfils without the remote's module being evaluated.
ImportFulfilNoEval(m) ==
    /\ status[m] = "pending"
    /\ Loadable(SpecOf(m))
    /\ status' = [status EXCEPT ![m] = "fulfilled"]
    /\ UNCHANGED <<cmd, buildVars, orchVars, nMounts, markup, upgraded, imports,
                   remoteVars, console>>

\* The import of mount m is fulfilled.  A module is evaluated on its first
\* load only: evaluating bootstrap.ts calls createApplication(...), whose
\* promise is then pending.
ImportFulfil(m) ==
    /\ status[m] = "pending"
    /\ Loadable(SpecOf(m))
    /\ status' = [status EXCEPT ![m] = "fulfilled"]
    /\ IF SpecOf(m) \in moduleCache
         THEN UNCHANGED <<moduleCache, bootstrap, evalCount>>
         ELSE /\ moduleCache' = moduleCache \cup {SpecOf(m)}
              /\ bootstrap' = "creating"
              /\ evalCount' = evalCount + 1
    /\ UNCHANGED <<cmd, buildVars, orchVars, nMounts, markup, upgraded, imports,
                   defineCalls, dupError, registry, console>>

\* The import of mount m is rejected: the entry script cannot be fetched
\* (or the module is not one the remote exposes).
ImportReject(m) ==
    /\ status[m] = "pending"
    /\ ~Loadable(SpecOf(m))
    /\ status' = [status EXCEPT ![m] = "rejected"]
    /\ UNCHANGED <<cmd, buildVars, orchVars, nMounts, markup, upgraded, imports,
                   remoteVars, console>>

\* .then(() => console.log("Angular remote loaded"))
ThenHandler(m) ==
    /\ status[m] = "fulfilled"
    /\ console' = Append(console, HostEntry(MsgLoaded, m))
    /\ status' = [status EXCEPT ![m] = "loaded"]
    /\ UNCHANGED <<cmd, buildVars, orchVars, nMounts, markup, upgraded, imports,
                   remoteVars>>

\* Variant: a rejection handler that swallows the error without logging.
CatchHandlerSilent(m) ==
    /\ status[m] = "rejected"
    /\ status' = [status EXCEPT ![m] = "failed"]
    /\ UNCHANGED <<cmd, buildVars, orchVars, nMounts, markup, upgraded, imports,
                   remoteVars, console>>

\* Variant: a rejection handler that logs and issues the import again.
CatchHandlerRetry(m) ==
    /\ status[m] = "rejected"
    /\ console' = Append(console, HostEntry(MsgFailed, m))
    /\ IF Cardinality({i \in DOMAIN imports : imports[i].mount = m}) < 2
         THEN /\ imports' = Append(imports, [mount |-> m, spec |-> HostImport])
              /\ status' = [status EXCEPT ![m] = "pending"]
         ELSE /\ imports' = imports
              /\ status' = [status EXCEPT ![m] = "failed"]
    /\ UNCHANGED <<cmd, buildVars, orchVars, nMounts, markup, upgraded, remoteVars>>

\* .catch((err) => console.error("Failed to load Angular remote", err))
CatchHandler(m) ==
    /\ status[m] = "rejected"
    /\ console' = Append(console, HostEntry(MsgFailed, m))
    /\ status' = [status EXCEPT ![m] = "failed"]
    /\ UNCHANGED <<cmd, buildVars, orchVars, nMounts, markup, upgraded, imports,
                   remoteVars>>

(* ---------------------- the remote's bootstrap ------------------------- *)

\* createApplication({...}) fulfils with the application reference.
CreateApplicationFulfil ==
    /\ bootstrap = "creating"
    /\ bootstrap' = "created"
    /\ UNCHANGED <<cmd, buildVars, orchVars, hostVars, moduleCache, evalCount,
                   defineCalls, dupError, registry, console>>

\* createApplication({...}) rejects; bootstrap.ts attaches no rejection
\* handler, so nothing follows.
CreateApplicationReject ==
    /\ bootstrap = "creating"
    /\ bootstrap' = "createFailed"
    /\ UNCHANGED <<cmd, buildVars, orchVars, hostVars, moduleCache, evalCount,
                   defineCalls, dupError, registry, console>>

\* Variant: the element is defined under another tag name than the one
\* the host renders.
RegisterHandlerWrongTag ==
    /\ bootstrap = "created"
    /\ defineCalls' = defineCalls + 1
    /\ registry' = registry \cup {"angular-root"}
    /\ console' = Append(console, RemoteEntry(MsgRegistered))
    /\ bootstrap' = "registered"
    /\ UNCHANGED <<cmd, buildVars, orchVars, hostVars, moduleCache, evalCount, dupError>>

\* .then(appRef => { createCustomElement; customElements.define; log }).
\* define throws on a name that is already defined, and the log line after
\* it is then not reached; otherwise it registers the name and upgrades
\* every <angular-app> already in the document before it returns.
RegisterHandler ==
    /\ bootstrap = "created"
    /\ defineCalls' = defineCalls + 1
    /\ IF TagName \in registry
         THEN /\ dupError' = TRUE
              /\ bootstrap' = "defineFailed"
              /\ UNCHANGED <<registry, upgraded, console>>
         ELSE /\ registry' = registry \cup {TagName}
              /\ upgraded' = [m \in Mounts |-> TagName \in {markup[m][i] : i \in DOMAIN markup[m]}]
              /\ console' = Append(console, RemoteEntry(MsgRegistered))
              /\ bootstrap' = "registered"
              /\ UNCHANGED dupError
    /\ UNCHANGED <<cmd, buildVars, orchVars, nMounts, markup, status, imports,
                   moduleCache, evalCount>>

(* --------------------------- specification ----------------------------- *)

Next ==
    \/ BuildStartRemote \/ BuildFinishRemote \/ BuildFailRemote
    \/ BuildStartHost \/ BuildFinishHost \/ BuildFailHost
    \/ StartRemote \/ RemoteReady
    \/ StartHostParallel \/ BeginWait \/ Poll \/ WaitTimeout \/ StartHostAfterWait
    \/ \E n \in Mounts : LoadPage(n)
    \/ \E m \in Mounts : Render(m)
    \/ \E m \in Mounts : RunEffect(m)
    \/ \E m \in Mounts : ImportFulfil(m)
    \/ \E m \in Mounts : ImportReject(m)
    \/ \E m \in Mounts : ThenHandler(m)
    \/ \E m \in Mounts : CatchHandler(m)
    \/ CreateApplicationFulfil \/ CreateApplicationReject \/ RegisterHandler

Spec == Init /\ [][Next]_vars

\* The page's event loop runs every queued callback and settles every
\* pending promise; nothing is assumed of the dev servers.
PageStep ==
    \/ \E m \in Mounts : Render(m)
    \/ \E m \in Mounts : RunEffect(m)
    \/ \E m \in Mounts : ImportFulfil(m)
    \/ \E m \in Mounts : ImportReject(m)
    \/ \E m \in Mounts : ThenHandler(m)
    \/ \E m \in Mounts : CatchHandler(m)
    \/ CreateApplicationFulfil \/ CreateApplicationReject \/ RegisterHandler

FairSpec == Spec /\ WF_vars(PageStep)

(* ------------------------------ properties ----------------------------- *)

Rendered(m) == markup[m] = AppMarkup

Registered == TagName \in registry

ImportSucceeded(m) == status[m] \in {"fulfilled", "loaded"}

ImportFailed(m) == status[m] \in {"rejected", "failed"}

\* C1, as stated: once App has mounted and the remote's entry script is
\* reachable, the rendered <angular-app> is eventually upgraded, also when
\* the page's single import was attempted before the script was reachable
\* (a createApplication that rejects is left aside).
C1_Original ==
    \A m \in Mounts :
        (nMounts = 1 /\ Rendered(m) /\ Reachable(HostRemotes.remoteAngular))
            ~> (upgraded[m] \/ bootstrap = "createFailed")

\* C1, amended: once a dynamic import of the host has been fulfilled (the
\* entry script was reachable when the import fetched it), then, unless
\* createApplication rejects, 'angular-app' is eventually registered and
\* every rendered <angular-app> tag is upgraded.
C1_UpgradeAfterFulfilledImport ==
    \A m \in Mounts :
        ImportSucceeded(m)
            ~> (\/ bootstrap = "createFailed"
                \/ (Registered /\ \A k \in Mounts : Rendered(k) => upgraded[k]))

\* The tag of a mount was rendered before the registration and upgraded by it.
C1_Witness ==
    \E m \in Mounts :
        /\ status[m] = "loaded"
        /\ Registered
        /\ upgraded[m]
        /\ console[Len(console)] = RemoteEntry(MsgRegistered)

\* C2: a rejected import leaves the mount's markup (heading, split span,
\* <angular-app>) as rendered: the host's tree is not torn down; and once
\* the rejection handler has run there is exactly one 'Failed to load
\* Angular remote' line for the mount, and no success line.
C2_FailureIsolated ==
    \A m \in Mounts :
        ImportFailed(m) =>
            /\ markup[m] = AppMarkup
            /\ Count(HostEntry(MsgLoaded, m)) = 0
            /\ Count(HostEntry(MsgFailed, m)) = IF status[m] = "failed" THEN 1 ELSE 0

\* The import was rejected with the entry script unreachable and the
\* handler has logged.
C2_Witness ==
    \E m \in Mounts :
        /\ status[m] = "failed"
        /\ ~Reachable(HostRemotes.remoteAngular)
        /\ console[Len(console)] = HostEntry(MsgFailed, m)

C4_SequentialGate ==
    cmd = "dev:sequential" =>
        /\ hostSrv = "running" => waitResult = "ok"
        /\ (nMounts > 0 \/ imports # <<>>) => waitResult = "ok" /\ hostSrv = "running"
        /\ \A i \in DOMAIN imports :
               /\ RemoteAlias(imports[i].spec) \in DOMAIN HostRemotes
               /\ HostRemotes[RemoteAlias(imports[i].spec)] = WaitOnUrl

\* A sequential start whose page has issued its import.
C4_Witness ==
    /\ cmd = "dev:sequential"
    /\ hostSrv = "running"
    /\ \E m \in Mounts : status[m] = "pending"

\* C5: in a full build the host's build runs, and completes, only with the
\* remote's build finished: the remote's artifacts come first.
C5_BuildOrder ==
    cmd = "build" =>
        /\ hostBuild # "pending" => remoteBuild = "done"
        /\ \A i \in DOMAIN artifacts :
               artifacts[i] = "host-react/dist"
                   => \E j \in 1..(i - 1) : artifacts[j] = "remote-angular/dist"

\* Both builds are done.
C5_Witness ==
    /\ cmd = "build"
    /\ hostBuild = "done"
    /\ artifacts = <<"remote-angular/dist", "host-react/dist">>

\* C6, as documented: every import the host issues names
\* 'remoteAngular/RemoteElement', and the remote 'remoteAngular' exposes
\* './RemoteElement' as './src/bootstrap.ts', so the import names a module
\* the remote exposes.
C6_DocumentedNames ==
    \A i \in DOMAIN imports :
        /\ imports[i].spec = <<"remoteAngular", "RemoteElement">>
        /\ RemoteName = RemoteAlias(imports[i].spec)
        /\ [key |-> <<".", "RemoteElement">>, file |-> "./src/bootstrap.ts"] \in RemoteExposes
        /\ Exposed(imports[i].spec)

\* C7: a mount issues the dynamic import exactly once; at most one of the
\* two lines (success, error) is logged for it, at most once; and once the
\* import is rejected the mount issues no further import, its markup stays
\* as rendered and it never turns to the success outcome.
C7_SingleOutcome ==
    /\ [](\A m \in Mounts :
            /\ Issued(m) = IF status[m] \in {"idle", "rendered"} THEN 0 ELSE 1
            /\ Count(HostEntry(MsgLoaded, m)) + Count(HostEntry(MsgFailed, m))
                   = IF status[m] \in {"loaded", "failed"} THEN 1 ELSE 0
            /\ Count(HostEntry(MsgLoaded, m)) = 1 => status[m] = "loaded"
            /\ Count(HostEntry(MsgFailed, m)) = 1 => status[m] = "failed")
    /\ [][\A m \in Mounts :
            ImportFailed(m) =>
                /\ ImportFailed(m)'
                /\ Issued(m)' = Issued(m)
                /\ markup'[m] = markup[m]]_vars

\* The only import of a mount was rejected and logged, and nothing was
\* retried although the entry script is reachable by now.
C7_Witness ==
    \E m \in Mounts :
        /\ status[m] = "failed"
        /\ Issued(m) = 1
        /\ Reachable(HostRemotes.remoteAngular)

\* C8: under the parallel start, once the import of every mount of the
\* page has failed, 'angular-app' is never registered and no tag is ever
\* upgraded, whatever the remote's state.
C8_ParallelRace ==
    (/\ cmd = "dev"
     /\ nMounts > 0
     /\ \A m \in 1..nMounts : Count(HostEntry(MsgFailed, m)) > 0)
        => /\ ~Registered
           /\ bootstrap = "unloaded"
           /\ \A m \in Mounts : ~upgraded[m]

\* The race: the host was started in parallel, its import was attempted
\* and failed before the remote was ready, and the remote is ready now
\* with the tag not upgraded.
C8_Witness ==
    /\ cmd = "dev"
    /\ nMounts = 1
    /\ status[1] = "failed"
    /\ Rendered(1)
    /\ Reachable(HostRemotes.remoteAngular)
    /\ ~upgraded[1]
    /\ ~Registered

\* C9: the readiness polling ends with success only by a request that
\* observed a success status, and only then is the host started; it ends
\* with a timeout only after the unsuccessful requests of the whole
\* timeout, reporting the URL, and the host is then not started, then or
\* later; while it has not ended it can always go on.
C9_PollingOutcome ==
    /\ [](/\ waitResult = "ok" => waitError = "" /\ polls < PollLimit
          /\ (cmd = "dev:sequential" /\ hostSrv = "running") => waitResult = "ok"
          /\ waitResult = "timeout"
                 => /\ polls = PollLimit
                    /\ waitError = WaitOnUrl
                    /\ hostSrv = "failed"
                    /\ nMounts = 0
          /\ (hostSrv = "waiting" /\ waitResult = "none") => ENABLED (Poll \/ WaitTimeout)
          /\ (hostSrv = "waiting" /\ waitResult = "ok") => ENABLED StartHostAfterWait)
    /\ [][/\ (waitResult # "ok" /\ waitResult' = "ok") => Reachable(WaitOnUrl)
          /\ waitResult = "timeout" => waitResult' = "timeout" /\ hostSrv' = "failed"]_vars

\* The polling timed out although the remote has become ready since the
\* last request.
C9_Witness ==
    /\ waitResult = "timeout"
    /\ hostSrv = "failed"
    /\ remoteSrv = "ready"

\* C10: however many mounts import the remote, the bootstrap module is
\* evaluated at most once and customElements.define is called at most
\* once, never on a defined name; and 'Angular Web Component registered'
\* is logged at most once, only with createApplication fulfilled and the
\* define call done.
C10_SingleRegistration ==
    /\ evalCount <= 1
    /\ defineCalls <= 1
    /\ ~dupError
    /\ Count(RemoteEntry(MsgRegistered)) = IF bootstrap = "registered" THEN 1 ELSE 0
    /\ bootstrap = "registered" <=> (defineCalls = 1 /\ Registered)
    /\ bootstrap \in {"unloaded", "creating", "created", "createFailed"}
           => defineCalls = 0 /\ ~Registered

\* Two mounts have imported the remote and the element is registered.
C10_Witness ==
    /\ nMounts = 2
    /\ \A m \in 1..2 : status[m] = "loaded"
    /\ evalCount = 1
    /\ Registered

=============================================================================
